---- MODULE Spec2Model ----
(***************************************************************************)
(* A model of pycosmo2/utils/numeric.py: the adaptive Simpson integrator   *)
(* integrate1, the fixed-order Gauss-Kronrod integrator integrate2 and the *)
(* Ridders root finder solve; and of the FunctionTable of                  *)
(* pycosmo/utils/function_table.py.                                        *)
(*                                                                         *)
(* Numbers.  A float is modelled as an integer count of a fixed unit, or   *)
(* as NaN.  Every arithmetic operation of the source is applied as the     *)
(* source applies it and its result is rounded (toward zero) to the unit,  *)
(* as IEEE arithmetic rounds each result to its own grid.  NaN propagates  *)
(* through arithmetic and makes every comparison false, as in numpy.       *)
(*                                                                         *)
(* Arrays.  An array is a record [shape, data]: shape is the tuple of its  *)
(* dimensions (<<>> for a 0-dimensional array) and data its elements in    *)
(* row-major order.                                                        *)
(***************************************************************************)
EXTENDS Integers, Sequences, FiniteSets, TLC

VARIABLES
    pc,      \* position of the call: "call", "recurse", "returned", "raised"
    inp,     \* the caller's arguments (and the interpreter's recursion limit)
    stack,   \* the live locals of the recurse() calls, innermost last
    depth,   \* number of Python frames on the interpreter's call stack
    out,     \* the value returned to the caller (<<>> until then)
    exc,     \* the exception that ended the call ("" while there is none)
    warns,   \* the warnings emitted so far, in order
    nevals,  \* number of calls of f made so far
    hist,    \* history of the call, recorded for the properties below
    ftab,    \* FunctionTable.ftab: the stored function of each key
    map      \* FunctionTable.map: the key each mapped key stands for

vars == <<pc, inp, stack, depth, out, exc, warns, nevals, hist, ftab, map>>

----------------------------------------------------------------------------
(* Floats                                                                  *)

NaN == 0 - 1073741824

IsNaN(x) == x = NaN

Abs(x) == IF x < 0 THEN 0 - x ELSE x

FAbs(x) == IF IsNaN(x) THEN NaN ELSE Abs(x)

FAdd(x, y) == IF IsNaN(x) \/ IsNaN(y) THEN NaN ELSE x + y

FSub(x, y) == IF IsNaN(x) \/ IsNaN(y) THEN NaN ELSE x - y

FMul(x, y) == IF IsNaN(x) \/ IsNaN(y) THEN NaN ELSE x * y

\* Integer quotient rounded toward zero.
Quot(x, y) == IF (x < 0) = (y < 0) THEN Abs(x) \div Abs(y)
                                   ELSE 0 - (Abs(x) \div Abs(y))

\* x / y: 0/0 and NaN operands give NaN (numpy warns and carries on).
FDiv(x, y) ==
    IF IsNaN(x) \/ IsNaN(y) \/ y = 0 THEN NaN ELSE Quot(x, y)

\* x * 0.5
FHalf(x) == IF IsNaN(x) THEN NaN ELSE Quot(x, 2)

FLt(x, y) == ~IsNaN(x) /\ ~IsNaN(y) /\ x < y

FLe(x, y) == ~IsNaN(x) /\ ~IsNaN(y) /\ x <= y

FGe(x, y) == ~IsNaN(x) /\ ~IsNaN(y) /\ x >= y

FGt(x, y) == ~IsNaN(x) /\ ~IsNaN(y) /\ x > y

RECURSIVE ISqrtIn(_, _, _)
ISqrtIn(n, lo, hi) ==
    IF lo >= hi THEN lo
    ELSE LET mid == (lo + hi + 1) \div 2
         IN  IF mid * mid <= n THEN ISqrtIn(n, mid, hi)
                               ELSE ISqrtIn(n, lo, mid - 1)

\* np.sqrt: NaN for a negative radicand.
FSqrt(x) ==
    IF IsNaN(x) \/ x < 0 THEN NaN ELSE ISqrtIn(x, 0, IF x < 46340 THEN x ELSE 46340)

----------------------------------------------------------------------------
(* Arrays                                                                  *)

RECURSIVE Prod(_)
Prod(s) == IF s = <<>> THEN 1 ELSE Head(s) * Prod(Tail(s))

ndim(arr) == Len(arr.shape)

Scalar(x) == [shape |-> <<>>, data |-> <<x>>]

Vector(xs) == [shape |-> <<Len(xs)>>, data |-> xs]

\* numpy's broadcasting rule for two shapes of the same number of dimensions.
Broadcastable(s, t) ==
    /\ Len(s) = Len(t)
    /\ \A k \in 1..Len(s) : s[k] = t[k] \/ s[k] = 1 \/ t[k] = 1

BroadcastShape(s, t) ==
    [k \in 1..Len(s) |-> IF s[k] = 1 THEN t[k] ELSE s[k]]

\* The array whose i-th element is F[i], for i in 1..n, as a tuple.
RECURSIVE ArrayOf(_, _)
ArrayOf(F, n) == IF n = 0 THEN <<>> ELSE Append(ArrayOf(F, n - 1), F[n])

\* The elements of arr, of at most one dimension, broadcast to n elements.
BroadcastTo(arr, n) ==
    ArrayOf([i \in 1..n |-> arr.data[IF Len(arr.data) = 1 THEN 1 ELSE i]], n)

\* np.min of a boolean array: whether every element is true.
np_min(mask) == \A i \in 1..Len(mask) : mask[i]

np_any(mask) == \E i \in 1..Len(mask) : mask[i]

----------------------------------------------------------------------------
(* The functions handed to the routines.  f is applied elementwise; args   *)
(* is one number r.                                                        *)

ApplyF(f, r, x) ==
    IF IsNaN(x) THEN NaN
    ELSE CASE f = "inc"  -> x - r                \* zero at r
           [] f = "dec"  -> r - x                \* zero at r
           [] f = "odd"  -> 2 * x - (2 * r + 1)  \* zero between r and r + 1
           [] f = "sq"   -> x * x - (r * r + r)   \* zero between r and r + 1
           [] f = "plus" -> x + 2                \* no zero at x >= 0
           [] f = "knee" -> IF x <= r THEN x - r ELSE 4 * (x - r)   \* zero at r
           [] f = "heel" -> IF x <= r THEN 4 * (x - r) ELSE x - r   \* zero at r

FMap(f, r, xs) == ArrayOf([i \in 1..Len(xs) |-> ApplyF(f, r, xs[i])], Len(xs))

----------------------------------------------------------------------------
(* The state before a call, and how a call ends                            *)

NoValue == [shape |-> <<>>, data |-> <<>>]

\* A dict without entries; the calls of numeric.py use no table.
NoEntries == <<>>

NoExc == [type |-> "", msg |-> ""]

\* The call ends with an exception: every frame is unwound, nothing is returned.
Raise(type, msg) ==
    /\ pc' = "raised"
    /\ exc' = [type |-> type, msg |-> msg]
    /\ stack' = <<>>
    /\ depth' = 1
    /\ out' = NoValue

\* The call returns value to the caller.
Return(value) ==
    /\ pc' = "returned"
    /\ out' = value
    /\ stack' = <<>>
    /\ depth' = 1
    /\ exc' = NoExc

----------------------------------------------------------------------------
(* solve: Ridders' method                                                  *)

\* Length of the longest array passed as a bound.
MaxLen == 2

\* Largest bracket endpoint.
MaxX == 16

SolvePointsA == {0}

SolvePointsB == {MaxX \div 2, MaxX}

SolveRoots == {6, MaxX \div 2}

SolveFuns == {"inc", "dec", "odd", "sq", "plus", "knee", "heel"}

\* tol, in the unit of x; the default 1e-06 is positive.
SolveTols == {0 - 1, 3}

\* sys.getrecursionlimit(): CPython's default, or one raised by the caller.
RecursionLimits == {1000, 1100}

Tuples(S, n) == [1..n -> S]

\* The bounds explored: 0-dimensional arrays and vectors of up to MaxLen
\* elements of S.
Arrays(S) ==
    {Scalar(x) : x \in S}
        \cup UNION {{Vector(xs) : xs \in Tuples(S, n)} : n \in 1..MaxLen}

\* A vector longer than every vector of Arrays(S).
LongVector == Vector(ArrayOf([i \in 1..(MaxLen + 1) |-> 0], MaxLen + 1))

\* The calls of solve that are explored.  A tolerance that is not positive and
\* a raised recursion limit are explored for calls with 0-dimensional bounds.
SolveInputs ==
    {i \in [routine : {"solve"}, f : SolveFuns, args : SolveRoots,
            a : Arrays(SolvePointsA) \cup {LongVector}, b : Arrays(SolvePointsB),
            tol : SolveTols, reclimit : RecursionLimits] :
        \/ ndim(i.a) = 0 /\ ndim(i.b) = 0
        \/ i.tol > 0 /\ \A l \in RecursionLimits : i.reclimit <= l}

SolveInit ==
    /\ pc = "call"
    /\ inp \in SolveInputs
    /\ stack = <<>>
    /\ depth = 1
    /\ out = NoValue
    /\ exc = NoExc
    /\ warns = <<>>
    /\ nevals = 0
    /\ ftab = NoEntries
    /\ map = NoEntries
    /\ hist = [frozen |-> <<>>, j |-> 0 - 1]

\* The iteration ceiling of recurse.
MAXITER == 1000

\* h = b - a
ridders_h(a, b) == FSub(b, a)

\* c = a + h * 0.5
ridders_c(a, b) == FAdd(a, FHalf(ridders_h(a, b)))

\* delta = ( c - a ) * fc / np.sqrt( fc*fc - fa*fb )
ridders_delta(a, c, fa, fb, fc) ==
    FDiv(FMul(FSub(c, a), fc), FSqrt(FSub(FMul(fc, fc), FMul(fa, fb))))

\* d = np.where( fa < fb , c - delta, c + delta)
ridders_d(a, c, fa, fb, fc) ==
    IF FLt(fa, fb) THEN FSub(c, ridders_delta(a, c, fa, fb, fc))
                   ELSE FAdd(c, ridders_delta(a, c, fa, fb, fc))

choice_unmasked(conv, fa, fc, fd) ==
    IF FLt(FMul(fc, fd), 0) THEN 1
    ELSE IF FLt(FMul(fa, fd), 0) THEN 2
    ELSE 3

\* choice, were fa*fd tested before fc*fd.
choice_reordered(conv, fa, fc, fd) ==
    IF conv THEN 0
    ELSE IF FLt(FMul(fa, fd), 0) THEN 2
    ELSE IF FLt(FMul(fc, fd), 0) THEN 1
    ELSE 3

\* [choice] : [0] conv | [1] a, b = c, d | [2] a, b = a, d | [3] a, b = d, b
choice(conv, fa, fc, fd) ==
    IF conv THEN 0
    ELSE IF FLt(FMul(fc, fd), 0) THEN 1
    ELSE IF FLt(FMul(fa, fd), 0) THEN 2
    ELSE 3

\* conv = conv | ( np.abs( h ) < tol ), were the width tested against four
\* times tol.
recurse_conv_wide(T) ==
    ArrayOf([i \in 1..Len(T.a) |->
                T.conv[i] \/ FLt(FAbs(ridders_h(T.a[i], T.b[i])), 4 * inp.tol)],
            Len(T.a))

\* conv = conv | ( np.abs( h ) < tol ), were the width of the first element
\* tested for all.
recurse_conv_first(T) ==
    ArrayOf([i \in 1..Len(T.a) |->
                T.conv[i] \/ FLt(FAbs(ridders_h(T.a[1], T.b[1])), inp.tol)],
            Len(T.a))

\* conv = conv | ( np.abs( h ) < tol )
recurse_conv(T) ==
    ArrayOf([i \in 1..Len(T.a) |->
                T.conv[i] \/ FLt(FAbs(ridders_h(T.a[i], T.b[i])), inp.tol)],
            Len(T.a))

\* The locals of recurse after one pass of its body, were fd stored with the
\* endpoint c in branch 1.
recurse_body_unpaired(T) ==
    LET n    == Len(T.a)
        c    == ArrayOf([i \in 1..n |-> ridders_c(T.a[i], T.b[i])], n)
        conv == recurse_conv(T)
        fc   == FMap(inp.f, inp.args, c)
        d    == ArrayOf([i \in 1..n |->
                    ridders_d(T.a[i], c[i], T.fa[i], T.fb[i], fc[i])], n)
        fd   == FMap(inp.f, inp.args, d)
        ch   == ArrayOf([i \in 1..n |-> choice(conv[i], T.fa[i], fc[i], fd[i])], n)
    IN  [c |-> c, conv |-> conv, fc |-> fc, d |-> d, fd |-> fd, choice |-> ch,
         a  |-> ArrayOf([i \in 1..n |-> IF ch[i] \in {0, 2} THEN T.a[i]
                                ELSE IF ch[i] = 1 THEN c[i] ELSE d[i]], n),
         fa |-> ArrayOf([i \in 1..n |-> IF ch[i] \in {0, 2} THEN T.fa[i] ELSE fd[i]], n),
         b  |-> ArrayOf([i \in 1..n |-> IF ch[i] \in {0, 3} THEN T.b[i] ELSE d[i]], n),
         fb |-> ArrayOf([i \in 1..n |-> IF ch[i] \in {0, 3} THEN T.fb[i] ELSE fd[i]], n)]

\* The locals of recurse after one pass of its body, given the frame it was
\* entered with: the mask, the points c and d, and the arguments of the next call.
recurse_body(T) ==
    LET n    == Len(T.a)
        c    == ArrayOf([i \in 1..n |-> ridders_c(T.a[i], T.b[i])], n)
        conv == recurse_conv(T)
        fc   == FMap(inp.f, inp.args, c)
        d    == ArrayOf([i \in 1..n |->
                    ridders_d(T.a[i], c[i], T.fa[i], T.fb[i], fc[i])], n)
        fd   == FMap(inp.f, inp.args, d)
        ch   == ArrayOf([i \in 1..n |-> choice(conv[i], T.fa[i], fc[i], fd[i])], n)
    IN  [c |-> c, conv |-> conv, fc |-> fc, d |-> d, fd |-> fd, choice |-> ch,
         a  |-> ArrayOf([i \in 1..n |-> IF ch[i] \in {0, 2} THEN T.a[i]
                                ELSE IF ch[i] = 1 THEN c[i] ELSE d[i]], n),
         fa |-> ArrayOf([i \in 1..n |-> IF ch[i] \in {0, 2} THEN T.fa[i]
                                ELSE IF ch[i] = 1 THEN fc[i] ELSE fd[i]], n),
         b  |-> ArrayOf([i \in 1..n |-> IF ch[i] \in {0, 3} THEN T.b[i] ELSE d[i]], n),
         fb |-> ArrayOf([i \in 1..n |-> IF ch[i] \in {0, 3} THEN T.fb[i] ELSE fd[i]], n)]

\* History: for each element whose mask turned true in this pass, the pass
\* number and the bracket, stored values and midpoint it had then.
Freeze(T, B) ==
    ArrayOf([i \in 1..Len(T.a) |->
        IF B.conv[i] /\ ~T.conv[i]
        THEN <<[j |-> T.j, a |-> T.a[i], fa |-> T.fa[i],
                b |-> T.b[i], fb |-> T.fb[i], c |-> B.c[i]]>>
        ELSE hist.frozen[i]], Len(T.a))

\* np.any( fa * fb >= 0 )
bracket_unstrict(fa, fb) ==
    np_any([i \in 1..Len(fa) |-> FGt(FMul(fa[i], fb[i]), 0)])

bracket_fails(fa, fb) ==
    np_any([i \in 1..Len(fa) |-> FGe(FMul(fa[i], fb[i]), 0)])

\* solve, lines 328-338: the checks, and the first call of recurse.
solve_dimension ==
    /\ pc = "call" /\ inp.routine = "solve"
    /\ ndim(inp.a) # ndim(inp.b)
    /\ Raise("SolverError", "a and b should have same dimension")
    /\ UNCHANGED <<inp, ftab, map, warns, nevals, hist>>

solve_broadcast ==
    /\ pc = "call" /\ inp.routine = "solve"
    /\ ndim(inp.a) = ndim(inp.b)
    /\ ~Broadcastable(inp.a.shape, inp.b.shape)
    /\ nevals' = nevals + 2
    /\ Raise("ValueError", "operands could not be broadcast together")
    /\ UNCHANGED <<inp, ftab, map, warns, hist>>

solve_bracket ==
    /\ pc = "call" /\ inp.routine = "solve"
    /\ ndim(inp.a) = ndim(inp.b)
    /\ Broadcastable(inp.a.shape, inp.b.shape)
    /\ LET n  == Prod(BroadcastShape(inp.a.shape, inp.b.shape))
           fa == BroadcastTo([inp.a EXCEPT !.data = FMap(inp.f, inp.args, @)], n)
           fb == BroadcastTo([inp.b EXCEPT !.data = FMap(inp.f, inp.args, @)], n)
       IN  bracket_fails(fa, fb)
    /\ nevals' = nevals + 2
    /\ Raise("SolverError", "interval does not contain a root")
    /\ UNCHANGED <<inp, ftab, map, warns, hist>>

solve_start ==
    /\ pc = "call" /\ inp.routine = "solve"
    /\ ndim(inp.a) = ndim(inp.b)
    /\ Broadcastable(inp.a.shape, inp.b.shape)
    /\ LET n  == Prod(BroadcastShape(inp.a.shape, inp.b.shape))
           a  == BroadcastTo(inp.a, n)
           b  == BroadcastTo(inp.b, n)
           fa == FMap(inp.f, inp.args, a)
           fb == FMap(inp.f, inp.args, b)
       IN  /\ ~bracket_fails(fa, fb)
           /\ stack' = <<[a |-> a, fa |-> fa, b |-> b, fb |-> fb,
                          conv |-> ArrayOf([i \in 1..n |-> FALSE], n), j |-> 0]>>
           /\ hist' = [frozen |-> ArrayOf([i \in 1..n |-> <<>>], n), j |-> 0]
    /\ nevals' = nevals + 2
    /\ depth' = depth + 2
    /\ pc' = "recurse"
    /\ UNCHANGED <<inp, ftab, map, out, exc, warns>>

solve ==
    \/ solve_dimension
    \/ solve_broadcast
    \/ solve_bracket
    \/ solve_start

\* recurse, lines 263-326.
recurse_maxiter ==
    /\ pc = "recurse" /\ inp.routine = "solve"
    /\ stack[1].j > MAXITER
    /\ Raise("SolverError", "root does not converge after maximum iterations")
    /\ UNCHANGED <<inp, ftab, map, warns, nevals, hist>>

recurse_return ==
    /\ pc = "recurse" /\ inp.routine = "solve"
    /\ stack[1].j <= MAXITER
    /\ np_min(recurse_conv(stack[1]))
    /\ LET T == stack[1]
           B == [c    |-> ArrayOf([i \in 1..Len(T.a) |-> ridders_c(T.a[i], T.b[i])],
                                 Len(T.a)),
                 conv |-> recurse_conv(T)]
       IN  /\ hist' = [hist EXCEPT !.frozen = Freeze(T, B)]
           /\ Return([shape |-> BroadcastShape(inp.a.shape, inp.b.shape),
                      data |-> B.c])
    /\ UNCHANGED <<inp, ftab, map, warns, nevals>>

recurse_next ==
    /\ pc = "recurse" /\ inp.routine = "solve"
    /\ stack[1].j <= MAXITER
    /\ depth + 1 <= inp.reclimit
    /\ ~np_min(recurse_conv(stack[1]))
    /\ LET T == stack[1]
           B == recurse_body(T)
       IN  /\ hist' = [frozen |-> Freeze(T, B), j |-> T.j + 1]
           /\ stack' = <<[a |-> B.a, fa |-> B.fa, b |-> B.b, fb |-> B.fb,
                          conv |-> B.conv, j |-> T.j + 1]>>
    /\ nevals' = nevals + 2
    /\ depth' = depth + 1
    /\ UNCHANGED <<pc, inp, ftab, map, out, exc, warns>>

\* The nested call would exceed the interpreter's recursion limit.
recurse_overflow ==
    /\ pc = "recurse" /\ inp.routine = "solve"
    /\ stack[1].j <= MAXITER
    /\ depth + 1 > inp.reclimit
    /\ ~np_min(recurse_conv(stack[1]))
    /\ nevals' = nevals + 2
    /\ Raise("RecursionError", "maximum recursion depth exceeded")
    /\ UNCHANGED <<inp, ftab, map, warns, hist>>

solve_recurse ==
    \/ recurse_maxiter
    \/ recurse_return
    \/ recurse_next
    \/ recurse_overflow

SolveNext == solve \/ solve_recurse

SpecSolve == SolveInit /\ [][SolveNext]_vars

----------------------------------------------------------------------------
(* integrate2: fixed-order Gauss-Kronrod quadrature                        *)

\* legendrerule( n ) of pycosmo2.utils.gaussrules: the number of nodes on
\* [-1, 1], the Gauss weights of the odd-numbered nodes and the Kronrod
\* weights of all nodes.  The weights are counted in units of 1/495.
legendrerule(n) ==
    IF n = 1
    THEN [nnodes |-> 3, wg |-> <<990>>, wk |-> <<275, 440, 275>>]
    ELSE [nnodes |-> 5, wg |-> <<495, 495>>, wk |-> <<98, 243, 308, 243, 98>>]

\* Rule orders passed as n.
RuleOrders == {1}

\* Finite values the integrand takes at a node.
YVals == {0, 1}

\* The values of an integrand at the nodes of one element, first node first.
\* The integrands explored take the same value at the first and last node,
\* or are NaN throughout.
YRows(nnodes) ==
    {row \in [1..nnodes -> YVals] : row[1] = row[nnodes]}
        \cup {[k \in 1..nnodes |-> NaN]}

\* The array of the given shape whose elements all equal x.
Full(shape, x) ==
    [shape |-> shape, data |-> ArrayOf([i \in 1..Prod(shape) |-> x], Prod(shape))]

\* Two-dimensional bounds: a column, and a square matrix.
Matrices(S) == {Full(shape, x) : shape \in {<<2, 1>>, <<2, 2>>}, x \in S}

\* eps, in the unit of the estimates (the unit of x times that of f and of
\* the weights).
EpsVals == {0, 275 * MaxX, 2 * 275 * MaxX}

Int2Inputs ==
    [routine : {"integrate2"},
     a : Arrays(SolvePointsA) \cup {LongVector} \cup Matrices(SolvePointsA),
     b : Arrays({MaxX}) \cup Matrices({MaxX}),
     eps : EpsVals, n : RuleOrders]

Int2Init ==
    /\ pc = "call"
    /\ inp \in Int2Inputs
    /\ stack = <<>>
    /\ depth = 1
    /\ out = NoValue
    /\ exc = NoExc
    /\ warns = <<>>
    /\ nevals = 0
    /\ ftab = NoEntries
    /\ map = NoEntries
    /\ hist = [xshape |-> <<>>, y |-> <<>>, Ig |-> <<>>, Ik |-> <<>>, error |-> <<>>]

\* a and b after lines 190-197: a 0-dimensional bound is multiplied by
\* np.ones_like of the other bound.
int2_bounds ==
    IF ndim(inp.a) = ndim(inp.b) THEN [a |-> inp.a, b |-> inp.b]
    ELSE IF ndim(inp.a) = 0
    THEN [a |-> [shape |-> inp.b.shape,
                 data  |-> BroadcastTo(inp.a, Len(inp.b.data))],
          b |-> inp.b]
    ELSE [a |-> inp.a,
          b |-> [shape |-> inp.a.shape,
                 data  |-> BroadcastTo(inp.b, Len(inp.a.data))]]

RECURSIVE np_dot(_, _)
\* np.dot of two vectors of the same length.
np_dot(y, w) ==
    IF y = <<>> THEN 0
    ELSE FAdd(FMul(Head(y), Head(w)), np_dot(Tail(y), Tail(w)))

\* y[..., 1:-1:2]: the elements of a row at the odd offsets 1, 3, ..., short
\* of the last.
odd_nodes(row) ==
    ArrayOf([k \in 1..((Len(row) - 1) \div 2) |-> row[2 * k]], (Len(row) - 1) \div 2)

\* m = 0.5*( b - a )
int2_m(a, b) == FHalf(FSub(b, a))

\* Ig = m * np.dot( y[..., 1:-1:2], wg )
int2_Ig(m, row, rule) == FMul(m, np_dot(odd_nodes(row), rule.wg))

\* Ik = m * np.dot( y, wk )
int2_Ik(m, row, rule) == FMul(m, np_dot(row, rule.wk))

\* np.any( error > eps )
exceeds_unstrict(error, eps) ==
    np_any([i \in 1..Len(error) |-> FGe(error[i], eps)])

exceeds(error, eps) ==
    np_any([i \in 1..Len(error) |-> FGt(error[i], eps)])

IntegrationWarning(msg) == [category |-> "IntegrationWarning", msg |-> msg]

\* Lines 210-216, were non-convergence an error.
int2_finish_raising(shape, Ig, Ik) ==
    LET error == ArrayOf([i \in 1..Len(Ik) |-> FAbs(FSub(Ig[i], Ik[i]))], Len(Ik))
    IN  /\ warns' = warns
        /\ IF exceeds(error, inp.eps)
           THEN Raise("IntegrationError", "integral is not converged to specified accuracy")
           ELSE Return([shape |-> shape, data |-> Ik])

\* Lines 210-216 given the estimates: the warning, and the value returned.
int2_finish(shape, Ig, Ik) ==
    LET error == ArrayOf([i \in 1..Len(Ik) |-> FAbs(FSub(Ig[i], Ik[i]))], Len(Ik))
    IN  /\ warns' =
              IF exceeds(error, inp.eps)
              THEN IF Len(shape) # 0
                   THEN Append(warns, IntegrationWarning(
                       "atleast some integrals are not converged to specified accuracy"))
                   ELSE Append(warns, IntegrationWarning(
                       "integral is not converged to specified accuracy"))
              ELSE warns
        /\ Return([shape |-> shape, data |-> Ik])

\* Lines 191-197, were a 0-dimensional bound refused like any other bound
\* of another number of dimensions.
integrate2_dimension_strict ==
    /\ pc = "call" /\ inp.routine = "integrate2"
    /\ ndim(inp.a) # ndim(inp.b)
    /\ Raise("IntegrationError", "a and b should have same dimension")
    /\ UNCHANGED <<inp, ftab, map, warns, nevals, hist>>

\* Lines 191-197: bounds of different, non-zero numbers of dimensions.
integrate2_dimension ==
    /\ pc = "call" /\ inp.routine = "integrate2"
    /\ ndim(inp.a) # ndim(inp.b) /\ ndim(inp.a) # 0 /\ ndim(inp.b) # 0
    /\ Raise("IntegrationError", "a and b should have same dimension")
    /\ UNCHANGED <<inp, ftab, map, warns, nevals, hist>>

\* Line 199: b - a of shapes that do not broadcast.
integrate2_broadcast ==
    /\ pc = "call" /\ inp.routine = "integrate2"
    /\ ndim(inp.a) = ndim(inp.b) \/ ndim(inp.a) = 0 \/ ndim(inp.b) = 0
    /\ ~Broadcastable(int2_bounds.a.shape, int2_bounds.b.shape)
    /\ Raise("ValueError", "operands could not be broadcast together")
    /\ UNCHANGED <<inp, ftab, map, warns, nevals, hist>>

\* The shape of m = 0.5*( b - a ).
int2_mshape == BroadcastShape(int2_bounds.a.shape, int2_bounds.b.shape)

\* Line 202 for m of two dimensions: m[:,None] * node multiplies shapes
\* (p, 1, q) and (nnodes,), which broadcast when q is 1 or nnodes.
integrate2_nodes ==
    /\ pc = "call" /\ inp.routine = "integrate2"
    /\ ndim(inp.a) = ndim(inp.b) \/ ndim(inp.a) = 0 \/ ndim(inp.b) = 0
    /\ Broadcastable(int2_bounds.a.shape, int2_bounds.b.shape)
    /\ IF Len(int2_mshape) = 2
       THEN int2_mshape[2] \notin {1, legendrerule(inp.n).nnodes}
       ELSE FALSE
    /\ Raise("ValueError", "operands could not be broadcast together")
    /\ UNCHANGED <<inp, ftab, map, warns, nevals, hist>>

\* Lines 199-216 for bounds with one quadrature problem per element: of at
\* most one dimension, or a column.  f returns one value for each point it
\* is given.
integrate2_evaluate ==
    /\ pc = "call" /\ inp.routine = "integrate2"
    /\ ndim(inp.a) = ndim(inp.b) \/ ndim(inp.a) = 0 \/ ndim(inp.b) = 0
    /\ Broadcastable(int2_bounds.a.shape, int2_bounds.b.shape)
    /\ IF Len(int2_mshape) = 2 THEN int2_mshape[2] = 1 ELSE TRUE
    /\ LET rule  == legendrerule(inp.n)
           shape == int2_mshape
           n     == Prod(shape)
           a     == BroadcastTo(int2_bounds.a, n)
           b     == BroadcastTo(int2_bounds.b, n)
           m     == ArrayOf([i \in 1..n |-> int2_m(a[i], b[i])], n)
       IN  \E y \in [1..n -> YRows(rule.nnodes)] :
               LET Ig == ArrayOf([i \in 1..n |-> int2_Ig(m[i], y[i], rule)], n)
                   Ik == ArrayOf([i \in 1..n |-> int2_Ik(m[i], y[i], rule)], n)
               IN  /\ hist' = [xshape |-> shape \o <<rule.nnodes>>, y |-> y,
                               Ig |-> Ig, Ik |-> Ik,
                               error |-> ArrayOf([i \in 1..n |->
                                   FAbs(FSub(Ig[i], Ik[i]))], n)]
                   /\ int2_finish(shape, Ig, Ik)
    /\ nevals' = nevals + 1
    /\ UNCHANGED <<inp, ftab, map>>

integrate2 ==
    \/ integrate2_dimension
    \/ integrate2_broadcast
    \/ integrate2_nodes
    \/ integrate2_evaluate

SpecInt2 == Int2Init /\ [][integrate2]_vars

----------------------------------------------------------------------------
(* integrate1: adaptive Simpson quadrature                                 *)
(*                                                                         *)
(* x is counted in whole units and [a, b] is [0, Width], so that every     *)
(* midpoint down to the deepest level is a whole number.  The values of f  *)
(* are counted in a unit six times that of the estimates, so that the      *)
(* division by 6.0 in simps3pt is exact.  atol and the estimates share one *)
(* unit, of which the floor 1e-08 is TolFloor; rtol is counted in the      *)
(* same fraction of 1e-08.                                                 *)

\* The ceiling of the depth counter j that is explored (50 in the source).
MaxLevel == 2

Width == 2 ^ (MaxLevel + 2)

\* 1e-08 in the unit of the tolerances: halving a multiple of the floor
\* stays exact down to the deepest level.
TolFloor == 2 ^ (MaxLevel + 1)

\* The number of units of rtol in 1.0.
RtolUnits == 100000000 * TolFloor

\* The integrands: f(x, slope, knee) = slope * max(x - knee, 0), with one
\* slope and one knee for each element of args.
Ramps == [slope : {0, 1, 3}, knee : {1, 6}]

ramp(r, x) == r.slope * (IF x > r.knee THEN x - r.knee ELSE 0)

\* f( x, *args ) at the scalar point x: one value for each element of args.
f_of(args, x) == ArrayOf([i \in 1..Len(args) |-> ramp(args[i], x)], Len(args))

int1_f(x) == f_of(inp.args.data, x)

AtolVals == {0 - TolFloor, 0, 4 * TolFloor}

RtolVals == {0 - TolFloor, 0, TolFloor}

Int1Inputs ==
    [routine : {"integrate1"}, args : Arrays(Ramps), a : {0}, b : {Width},
     rtol : RtolVals, atol : AtolVals]

\* History: the largest depth counter a call of recurse was entered with,
\* the number of calls of recurse that have returned, whether the mask of
\* some element has been true, of the call of recurse that returned
\* last its counter, mask, current and the value it returned, and of every
\* call of recurse that returned without nested calls, in the order of their
\* return, its interval, the mask it was entered with and its left + right.
NoCall == [j |-> 0 - 1, conv |-> <<>>, current |-> <<>>, value |-> <<>>]

Int1Init ==
    /\ pc = "call"
    /\ inp \in Int1Inputs
    /\ stack = <<>>
    /\ depth = 1
    /\ out = NoValue
    /\ exc = NoExc
    /\ warns = <<>>
    /\ nevals = 0
    /\ ftab = NoEntries
    /\ map = NoEntries
    /\ hist = [deepest |-> 0 - 1, nret |-> 0, masked |-> FALSE, ret |-> NoCall,
               leaves |-> <<>>]

\* simps3pt, lines 94-100: m, fm and ( fa + 4*fm + fb ) * h / 6.0
simps3pt_of(args, a, fa, b, fb) ==
    LET h  == b - a
        m  == a + h \div 2
        fm == f_of(args, m)
    IN  [m |-> m, fm |-> fm,
         est |-> ArrayOf([i \in 1..Len(fm) |-> (fa[i] + 4 * fm[i] + fb[i]) * h],
                         Len(fm))]

simps3pt(a, fa, b, fb) == simps3pt_of(inp.args.data, a, fa, b, fb)

\* max( rtol, 1e-08 ), were the tolerance used as it is handed in.
floored_none(t) == t

\* max( rtol, 1e-08 )
floored(t) == IF t > TolFloor THEN t ELSE TolFloor

\* np.abs( current - prev ) <= atol + rtol * np.abs( current )
within(current, prev, rtol, atol) ==
    Abs(current - prev) - atol <= (rtol * Abs(current)) \div RtolUnits

\* The locals of recurse after lines 109-116, given its arguments E.
body_of(args, E) ==
    LET n     == Len(E.prev)
        rtol  == floored(E.rtol)
        atol  == floored(E.atol)
        L     == simps3pt_of(args, E.a, E.fa, E.m, E.fm)
        R     == simps3pt_of(args, E.m, E.fm, E.b, E.fb)
        cur   == ArrayOf([i \in 1..n |->
                     IF E.conv[i] THEN E.prev[i] ELSE L.est[i] + R.est[i]], n)
    IN  [rtol |-> rtol, atol |-> atol, lm |-> L.m, flm |-> L.fm, left |-> L.est,
         rm |-> R.m, frm |-> R.fm, right |-> R.est, current |-> cur,
         conv |-> ArrayOf([i \in 1..n |->
                     E.conv[i] \/ within(cur[i], E.prev[i], rtol, atol)], n)]

int1_body(E) == body_of(inp.args.data, E)

\* The arguments of the left nested call, were the counter handed on as it is.
left_call_level(E, B) ==
    [a |-> E.a, fa |-> E.fa, b |-> E.m, fb |-> E.fm, m |-> B.lm, fm |-> B.flm,
     prev |-> B.left, rtol |-> B.rtol \div 2, atol |-> B.atol \div 2,
     conv |-> B.conv, j |-> E.j, phase |-> "enter", leftres |-> <<>>,
     rightres |-> <<>>]

\* The arguments of the right nested call, were fa handed on as the value at
\* its lower end.
right_call_stale(E, B) ==
    [a |-> E.m, fa |-> E.fa, b |-> E.b, fb |-> E.fb, m |-> B.rm, fm |-> B.frm,
     prev |-> B.right, rtol |-> B.rtol \div 2, atol |-> B.atol \div 2,
     conv |-> B.conv, j |-> E.j + 1, phase |-> "enter", leftres |-> <<>>,
     rightres |-> <<>>]

\* The arguments of the left nested call, were the tolerances handed on as
\* they are.
left_call_whole(E, B) ==
    [a |-> E.a, fa |-> E.fa, b |-> E.m, fb |-> E.fm, m |-> B.lm, fm |-> B.flm,
     prev |-> B.left, rtol |-> B.rtol, atol |-> B.atol,
     conv |-> B.conv, j |-> E.j + 1, phase |-> "enter", leftres |-> <<>>,
     rightres |-> <<>>]

\* The arguments of the two nested calls, lines 121-128.
left_call(E, B) ==
    [a |-> E.a, fa |-> E.fa, b |-> E.m, fb |-> E.fm, m |-> B.lm, fm |-> B.flm,
     prev |-> B.left, rtol |-> B.rtol \div 2, atol |-> B.atol \div 2,
     conv |-> B.conv, j |-> E.j + 1, phase |-> "enter", leftres |-> <<>>,
     rightres |-> <<>>]

right_call(E, B) ==
    [a |-> E.m, fa |-> E.fm, b |-> E.b, fb |-> E.fb, m |-> B.rm, fm |-> B.frm,
     prev |-> B.right, rtol |-> B.rtol \div 2, atol |-> B.atol \div 2,
     conv |-> B.conv, j |-> E.j + 1, phase |-> "enter", leftres |-> <<>>,
     rightres |-> <<>>]

Front(s) == SubSeq(s, 1, Len(s) - 1)

Top(s) == s[Len(s)]

\* if j > 50
too_deep_late(j) == j > MaxLevel + 1

too_deep(j) == j > MaxLevel

\* if rtol < 0 or atol < 0
tolerance_invalid_rtol(rtol, atol) == rtol < 0

tolerance_invalid(rtol, atol) == rtol < 0 \/ atol < 0

\* A call of recurse returns value to the calls below it on the stack:
\* to the caller of integrate1, or to the call of recurse that waits for
\* its left operand (which then makes the right call) or for its right one.
int1_return(rest, value) ==
    IF rest = <<>>
    THEN Return([shape |-> inp.args.shape, data |-> value])
    ELSE /\ stack' =
               IF Top(rest).phase = "left"
               THEN Front(rest)
                        \o <<[Top(rest) EXCEPT !.phase = "right", !.leftres = value]>>
                        \o <<right_call(Top(rest), int1_body(Top(rest)))>>
               ELSE Front(rest)
                        \o <<[Top(rest) EXCEPT !.phase = "sum", !.rightres = value]>>
         /\ depth' = IF Top(rest).phase = "left" THEN depth ELSE depth - 1
         /\ UNCHANGED <<pc, out, exc>>

\* integrate1, lines 131-132.
integrate1_tolerance ==
    /\ pc = "call" /\ inp.routine = "integrate1"
    /\ tolerance_invalid(inp.rtol, inp.atol)
    /\ Raise("ValueError", "tolerance must be positive")
    /\ UNCHANGED <<inp, ftab, map, warns, nevals, hist>>

\* integrate1, lines 134-140: f at the bounds, the first estimate, and the
\* first call of recurse.
integrate1_start ==
    /\ pc = "call" /\ inp.routine = "integrate1"
    /\ ~tolerance_invalid(inp.rtol, inp.atol)
    /\ LET fa == int1_f(inp.a)
           fb == int1_f(inp.b)
           S  == simps3pt(inp.a, fa, inp.b, fb)
       IN  stack' = <<[a |-> inp.a, fa |-> fa, b |-> inp.b, fb |-> fb,
                       m |-> S.m, fm |-> S.fm, prev |-> S.est,
                       rtol |-> inp.rtol, atol |-> inp.atol,
                       conv |-> ArrayOf([i \in 1..Len(fa) |-> FALSE], Len(fa)),
                       j |-> 0, phase |-> "enter", leftres |-> <<>>,
                       rightres |-> <<>>]>>
    /\ hist' = [hist EXCEPT !.deepest = 0]
    /\ nevals' = nevals + 3
    /\ depth' = depth + 2
    /\ pc' = "recurse"
    /\ UNCHANGED <<inp, ftab, map, out, exc, warns>>

integrate1 == integrate1_tolerance \/ integrate1_start

\* recurse, lines 106-107.
simpson_limit ==
    /\ pc = "recurse" /\ inp.routine = "integrate1"
    /\ Top(stack).phase = "enter"
    /\ too_deep(Top(stack).j)
    /\ Raise("IntegrationError", "maximum recursions reached without convergence")
    /\ UNCHANGED <<inp, ftab, map, warns, nevals, hist>>

\* recurse, lines 109-119: every element is converged.
simpson_return ==
    /\ pc = "recurse" /\ inp.routine = "integrate1"
    /\ Top(stack).phase = "enter"
    /\ ~too_deep(Top(stack).j)
    /\ LET E == Top(stack)
           B == int1_body(E)
       IN  /\ np_min(B.conv)
           /\ hist' = [hist EXCEPT !.nret = @ + 1, !.masked = TRUE,
                                   !.ret = [j |-> E.j, conv |-> B.conv,
                                            current |-> B.current,
                                            value |-> B.current],
                                   !.leaves = Append(@,
                                       [a |-> E.a, b |-> E.b, conv |-> E.conv,
                                        sum |-> ArrayOf([i \in 1..Len(E.prev) |->
                                            B.left[i] + B.right[i]], Len(E.prev))])]
           /\ int1_return(Front(stack), B.current)
    /\ nevals' = nevals + 2
    /\ UNCHANGED <<inp, ftab, map, warns>>

\* recurse, lines 109-124: the left nested call.
simpson_descend ==
    /\ pc = "recurse" /\ inp.routine = "integrate1"
    /\ Top(stack).phase = "enter"
    /\ ~too_deep(Top(stack).j)
    /\ LET E == Top(stack)
           B == int1_body(E)
       IN  /\ ~np_min(B.conv)
           /\ stack' = Front(stack) \o <<[E EXCEPT !.phase = "left"]>>
                           \o <<left_call(E, B)>>
           /\ hist' = [hist EXCEPT
                          !.deepest = IF E.j + 1 > @ THEN E.j + 1 ELSE @,
                          !.masked = @ \/ np_any(B.conv)]
    /\ nevals' = nevals + 2
    /\ depth' = depth + 1
    /\ UNCHANGED <<pc, inp, ftab, map, out, exc, warns>>

\* recurse, lines 120-129: the sum of the values of the two nested calls.
simpson_sum ==
    /\ pc = "recurse" /\ inp.routine = "integrate1"
    /\ Top(stack).phase = "sum"
    /\ LET E == Top(stack)
           B == int1_body(E)
           value == ArrayOf([i \in 1..Len(E.prev) |->
                        E.leftres[i] + E.rightres[i]], Len(E.prev))
       IN  /\ hist' = [hist EXCEPT !.nret = @ + 1,
                                   !.ret = [j |-> E.j, conv |-> B.conv,
                                            current |-> B.current,
                                            value |-> value]]
           /\ int1_return(Front(stack), value)
    /\ UNCHANGED <<inp, ftab, map, warns, nevals>>

integrate1_recurse ==
    \/ simpson_limit
    \/ simpson_return
    \/ simpson_descend
    \/ simpson_sum

Int1Next == integrate1 \/ integrate1_recurse

SpecInt1 == Int1Init /\ [][Int1Next]_vars

\* The interpreter runs the call to its end: a step that can be taken is
\* taken.
SpecInt1Live == SpecInt1 /\ WF_vars(Int1Next)

\* The outcome of a call as a value: what it returns, or that it raises.
Raises == [ok |-> FALSE, value |-> <<>>]

Returns(value) == [ok |-> TRUE, value |-> value]

RECURSIVE recurse_of(_, _)
\* recurse, lines 106-129, called with the arguments E for the function
\* f( x, *args ).
recurse_of(args, E) ==
    IF too_deep(E.j) THEN Raises
    ELSE LET B == body_of(args, E)
         IN  IF np_min(B.conv) THEN Returns(B.current)
             ELSE LET L == recurse_of(args, left_call(E, B))
                  IN  IF ~L.ok THEN Raises
                      ELSE LET R == recurse_of(args, right_call(E, B))
                           IN  IF ~R.ok THEN Raises
                               ELSE Returns(ArrayOf([i \in 1..Len(E.prev) |->
                                        L.value[i] + R.value[i]], Len(E.prev)))

\* integrate1( f, a, b, args, rtol, atol ), lines 131-141.
integrate1_of(args, a, b, rtol, atol) ==
    IF tolerance_invalid(rtol, atol) THEN Raises
    ELSE LET fa == f_of(args, a)
             fb == f_of(args, b)
             S  == simps3pt_of(args, a, fa, b, fb)
         IN  recurse_of(args,
                 [a |-> a, fa |-> fa, b |-> b, fb |-> fb, m |-> S.m, fm |-> S.fm,
                  prev |-> S.est, rtol |-> rtol, atol |-> atol,
                  conv |-> ArrayOf([i \in 1..Len(fa) |-> FALSE], Len(fa)),
                  j |-> 0, phase |-> "enter", leftres |-> <<>>, rightres |-> <<>>])

-----------------------------------------------------------------------------
(* integrate1 on the power laws of its docstring                           *)
(*                                                                         *)
(* f(x, k) = x**k on [0, 1], with one exponent for each element of args.   *)
(* A float is a count of Unit-ths, each product and quotient rounded to    *)
(* the nearest count; a tolerance is a count of (Unit * TolScale)-ths, so  *)
(* that the default tolerances and their halves keep their digits.         *)

Unit == 2 ^ 28

Limb == 2 ^ 14

TolScale == 2 ^ 8

\* x * y for floats x, y >= 0 of at most 6.0 and 1.0, rounded to nearest:
\* the product is formed from the halves of the factors.
FixMul(x, y) ==
    LET xh == x \div Limb
        xl == x % Limb
        yh == y \div Limb
        yl == y % Limb
    IN  xh * yh + (xh * yl + xl * yh + (xl * yl) \div Limb + Limb \div 2) \div Limb

\* x / 6.0, rounded to nearest.
Sixth(x) == (x + 3) \div 6

RECURSIVE power(_, _)
\* x**k
power(x, k) == IF k = 0 THEN Unit ELSE FixMul(power(x, k - 1), x)

\* The largest exponent explored.
MaxPower == 8

\* a = np.array([2.0, 4.0, 6.0]), the exponents of the docstring.
DocExample == Vector(<<2, 4, 6>>)

\* rtol: float = 1e-06, atol: float = 1e-08, and the floor 1e-08 of line
\* 109, in the unit of the tolerances.
DefaultRtol == 68719

DefaultAtol == 687

ToleranceFloor == 687

\* if j > 50
MaxRecursions == 50

PowInputs ==
    [routine : {"integrate1"},
     args : {Scalar(k) : k \in 0..MaxPower} \cup {DocExample},
     a : {0}, b : {Unit},
     rtol : {0 - DefaultRtol, DefaultRtol, 4 * DefaultRtol, 16 * DefaultRtol},
     atol : {DefaultAtol, 4 * DefaultAtol, 16 * DefaultAtol}]

PowInit ==
    /\ pc = "call"
    /\ inp \in PowInputs
    /\ stack = <<>>
    /\ depth = 1
    /\ out = NoValue
    /\ exc = NoExc
    /\ warns = <<>>
    /\ nevals = 0
    /\ ftab = NoEntries
    /\ map = NoEntries
    /\ hist = [deepest |-> 0 - 1, ncalls |-> 0]

\* f( x, *args ) for f = lambda x, k: x**k
pow_f(args, x) == ArrayOf([i \in 1..Len(args) |-> power(x, args[i])], Len(args))

\* The one element of a set of one element: LET with its definition
\* evaluated once.
The(S) == CHOOSE v \in S : TRUE

\* ( fa + 4*fm + fb ) * h / 6.0 with the end points weighted like the mid
\* point.
pow_estimate_even(fa, fm, fb, h) ==
    ArrayOf([i \in 1..Len(fm) |->
        Sixth(FixMul(2 * fa[i] + 2 * fm[i] + 2 * fb[i], h))], Len(fm))

\* ( fa + 4*fm + fb ) * h / 6.0
pow_estimate(fa, fm, fb, h) ==
    ArrayOf([i \in 1..Len(fm) |->
        Sixth(FixMul(fa[i] + 4 * fm[i] + fb[i], h))], Len(fm))

\* simps3pt, lines 97-100: m, fm, ( fa + 4*fm + fb ) * h / 6.0
pow_simps3pt(args, a, fa, b, fb) ==
    The({[m |-> a + (b - a) \div 2, fm |-> fm,
          est |-> pow_estimate(fa, fm, fb, b - a)] :
             fm \in {pow_f(args, a + (b - a) \div 2)}})

\* max( rtol, 1e-08 )
pow_floored(t) == IF t > ToleranceFloor THEN t ELSE ToleranceFloor

\* np.abs( current - prev ) <= atol + rtol * np.abs( current )
pow_within(current, prev, rtol, atol) ==
    Abs(current - prev) <= (atol + FixMul(rtol, Abs(current))) \div TolScale

\* Lines 114-116 given the two estimates: current and conv.
pow_test(E, L, R, cur) ==
    [rtol |-> pow_floored(E.rtol), atol |-> pow_floored(E.atol),
     lm |-> L.m, flm |-> L.fm, left |-> L.est,
     rm |-> R.m, frm |-> R.fm, right |-> R.est, current |-> cur,
     conv |-> ArrayOf([i \in 1..Len(cur) |->
                 E.conv[i] \/ pow_within(cur[i], E.prev[i],
                                         pow_floored(E.rtol), pow_floored(E.atol))],
                 Len(cur))]

\* np.where( conv, prev, left + right )
pow_current(E, L, R) ==
    ArrayOf([i \in 1..Len(E.prev) |->
        IF E.conv[i] THEN E.prev[i] ELSE L.est[i] + R.est[i]], Len(E.prev))

\* The locals of recurse after lines 109-116, given its arguments E.
pow_body(args, E) ==
    The({The({pow_test(E, L, R, cur) : cur \in {pow_current(E, L, R)}}) :
            L \in {pow_simps3pt(args, E.a, E.fa, E.m, E.fm)},
            R \in {pow_simps3pt(args, E.m, E.fm, E.b, E.fb)}})

\* What a call of recurse hands back: whether it returned, the value, the
\* number of calls of recurse it made and the largest counter among them.
PowRaises(ncalls, deepest) ==
    [ok |-> FALSE, value |-> <<>>, ncalls |-> ncalls, deepest |-> deepest]

PowReturns(value, ncalls, deepest) ==
    [ok |-> TRUE, value |-> value, ncalls |-> ncalls, deepest |-> deepest]

\* The arguments of the two nested calls, lines 121-128.
pow_left_call(E, B) ==
    [a |-> E.a, fa |-> E.fa, b |-> E.m, fb |-> E.fm, m |-> B.lm, fm |-> B.flm,
     prev |-> B.left, rtol |-> B.rtol \div 2, atol |-> B.atol \div 2,
     conv |-> B.conv, j |-> E.j + 1]

pow_right_call(E, B) ==
    [a |-> E.m, fa |-> E.fm, b |-> E.b, fb |-> E.fb, m |-> B.rm, fm |-> B.frm,
     prev |-> B.right, rtol |-> B.rtol \div 2, atol |-> B.atol \div 2,
     conv |-> B.conv, j |-> E.j + 1]

\* Lines 120-129: the sum of the values of the two nested calls.
pow_sum(L, R) ==
    IF ~R.ok
    THEN PowRaises(1 + L.ncalls + R.ncalls,
                   IF L.deepest > R.deepest THEN L.deepest ELSE R.deepest)
    ELSE PowReturns(ArrayOf([i \in 1..Len(L.value) |-> L.value[i] + R.value[i]],
                            Len(L.value)),
                    1 + L.ncalls + R.ncalls,
                    IF L.deepest > R.deepest THEN L.deepest ELSE R.deepest)

RECURSIVE pow_recurse(_, _)
\* recurse, lines 106-129.
pow_recurse(args, E) ==
    IF E.j > MaxRecursions THEN PowRaises(1, E.j)
    ELSE The({IF np_min(B.conv) THEN PowReturns(B.current, 1, E.j)
              ELSE The({IF ~L.ok THEN PowRaises(1 + L.ncalls, L.deepest)
                        ELSE The({pow_sum(L, R) :
                                R \in {pow_recurse(args, pow_right_call(E, B))}}) :
                            L \in {pow_recurse(args, pow_left_call(E, B))}}) :
                 B \in {pow_body(args, E)}})

\* Lines 134-140: the first estimate and the first call of recurse.
pow_integrate1(args, a, b, rtol, atol) ==
    The({pow_recurse(args,
            [a |-> a, fa |-> ends.fa, b |-> b, fb |-> ends.fb, m |-> S.m, fm |-> S.fm,
             prev |-> S.est, rtol |-> rtol, atol |-> atol,
             conv |-> ArrayOf([i \in 1..Len(args) |-> FALSE], Len(args)), j |-> 0]) :
        ends \in {[fa |-> pow_f(args, a), fb |-> pow_f(args, b)]},
        S \in {pow_simps3pt(args, a, pow_f(args, a), b, pow_f(args, b))}})

\* integrate1( lambda x, k: x**k, 0, 1, args, rtol, atol ), lines 131-141.
integrate1_power ==
    /\ pc = "call" /\ inp.routine = "integrate1"
    /\ IF tolerance_invalid(inp.rtol, inp.atol)
       THEN /\ Raise("ValueError", "tolerance must be positive")
            /\ UNCHANGED <<inp, ftab, map, warns, nevals, hist>>
       ELSE \E R \in {pow_integrate1(inp.args.data, inp.a, inp.b, inp.rtol, inp.atol)} :
                /\ IF R.ok
                   THEN Return([shape |-> inp.args.shape, data |-> R.value])
                   ELSE Raise("IntegrationError",
                              "maximum recursions reached without convergence")
                /\ hist' = [deepest |-> R.deepest, ncalls |-> R.ncalls]
                /\ UNCHANGED <<inp, ftab, map, warns, nevals>>

PowNext == integrate1_power

SpecPow == PowInit /\ [][PowNext]_vars

\* The arguments of the next call of solve's recurse, line 326.
next_call(T) ==
    LET B == recurse_body(T)
    IN  [a |-> B.a, fa |-> B.fa, b |-> B.b, fb |-> B.fb, conv |-> B.conv,
         j |-> T.j + 1]

RECURSIVE ridders_of(_)
\* solve's recurse, lines 264-326, called with the arguments T.  A pass that
\* hands its own bracket on unchanged repeats until the call is ended by the
\* iteration ceiling or by the interpreter's recursion limit.
ridders_of(T) ==
    IF T.j > MAXITER THEN Raises
    ELSE IF np_min(recurse_conv(T))
    THEN Returns(ArrayOf([i \in 1..Len(T.a) |-> ridders_c(T.a[i], T.b[i])], Len(T.a)))
    ELSE IF next_call(T) = [T EXCEPT !.j = T.j + 1] THEN Raises
    ELSE ridders_of(next_call(T))

\* solve( f, a, b, args, tol ) for bounds of the same shape, lines 331-338.
solve_of(a, b) ==
    LET fa == FMap(inp.f, inp.args, a)
        fb == FMap(inp.f, inp.args, b)
    IN  IF bracket_fails(fa, fb) THEN Raises
        ELSE ridders_of([a |-> a, fa |-> fa, b |-> b, fb |-> fb,
                         conv |-> ArrayOf([i \in 1..Len(a) |-> FALSE], Len(a)),
                         j |-> 0])

----------------------------------------------------------------------------
(* FunctionTable: functions stored under keys, and keys mapped to keys     *)
(*                                                                         *)
(* A dict is a function from its keys to its values.  Every call of a      *)
(* method is one step; pc, out and exc tell how the last call ended.       *)

\* The str keys explored.
Keys == {"x", "y", "z"}

\* A key that is not a str.
NotStr == "0"

\* isinstance( key, str )
isinstance_str(key) == key \in Keys

\* The callables explored, and an object that is not callable.
Callables == {"g", "h"}

NotCallable == "None"

\* PyCosmoFunction._fclasses
fclasses == {"any", "bias", "power", "hmf"}

\* The values of fclass explored: the default, and one that is not a class.
FclassArgs == {"any", "mass"}

\* PyCosmoFunction( f, fclass ), lines 13-39, for the default z, cosmo and
\* mdef: the object made, and the exception the constructor raises instead.
PyCosmoFunction(f, fclass) == [type |-> "PyCosmoFunction", f |-> f, fclass |-> fclass]

PyCosmoFunction_raises(f, fclass) ==
    IF f \notin Callables THEN [type |-> "TypeError", msg |-> "'f' must be a callable"]
    ELSE IF fclass \notin fclasses
         THEN [type |-> "ValueError", msg |-> "invalid function class"]
         ELSE NoExc

\* A callable that is not a PyCosmoFunction.
Plain(f) == [type |-> "function", f |-> f, fclass |-> ""]

\* isinstance( f, PyCosmoFunction )
isinstance_PyCosmoFunction(v) == v.type = "PyCosmoFunction"

\* The values handed to __setitem__.
Values == {PyCosmoFunction(f, "any") : f \in Callables} \cup {Plain("g")}

\* d[ k ] = v
Put(d, k, v) == [x \in DOMAIN d \cup {k} |-> IF x = k THEN v ELSE d[x]]

\* The dicts handed to setMapping, as the tuple of their items in the order
\* of iteration: one item, or two items of str with different keys.
Items == (Keys \cup {NotStr}) \X (Keys \cup {NotStr})

Mappings ==
    {<<p>> : p \in Items}
        \cup {pq \in {<<p, q>> : p \in Keys \X Keys, q \in Keys \X Keys} :
                 pq[1][1] # pq[2][1]}

\* FunctionTable( name ), lines 50-53.
TableInit ==
    /\ pc = "returned"
    /\ inp = [routine |-> "FunctionTable", name |-> "table"]
    /\ stack = <<>>
    /\ depth = 1
    /\ out = NoValue
    /\ exc = NoExc
    /\ warns = <<>>
    /\ nevals = 0
    /\ hist = NoEntries
    /\ ftab = NoEntries
    /\ map = NoEntries

\* keys, lines 55-59.
keys_of(ft) == DOMAIN ft

\* exists, lines 61-65, for a table with the fields ft and m.
exists_of(ft, m, key) == key \in keys_of(ft) \/ key \in DOMAIN m

exists(key) == exists_of(ftab, map, key)

\* __getitem__, lines 67-72, as a value: the object returned, or that the
\* call raises KeyError.
getitem_of(ft, m, key) ==
    LET key2 == IF key \in DOMAIN m THEN m[key] ELSE key
    IN  IF ~exists_of(ft, m, key2) THEN [ok |-> FALSE, key |-> key2]
        ELSE IF key2 \in DOMAIN ft THEN [ok |-> TRUE, value |-> ft[key2]]
        ELSE [ok |-> FALSE, key |-> key2]

\* __getitem__, lines 67-72.
__getitem__ ==
    /\ \E key \in Keys \cup {NotStr} :
           LET r == getitem_of(ftab, map, key)
           IN  IF r.ok THEN Return(r.value) ELSE Raise("KeyError", r.key)
    /\ UNCHANGED <<inp, warns, nevals, hist, ftab, map>>

\* The key under which __setitem__ stores, lines 79-81.
setitem_key(m, key) == IF key \in DOMAIN m THEN m[key] ELSE key

\* __setitem__, lines 74-81.
__setitem__ ==
    /\ \E key \in Keys \cup {NotStr}, f \in Values :
           IF ~isinstance_str(key)
           THEN Raise("TypeError", "key must be an 'str'") /\ ftab' = ftab
           ELSE IF ~isinstance_PyCosmoFunction(f)
           THEN Raise("TypeError", "'f' must be a 'PyCosmoFuncion'") /\ ftab' = ftab
           ELSE Return(NoValue) /\ ftab' = Put(ftab, setitem_key(map, key), f)
    /\ UNCHANGED <<inp, warns, nevals, hist, map>>

RECURSIVE set_items(_, _, _)
\* The loop of setMapping, lines 87-92, over the items left: the map it
\* leaves, and the exception that ended it.
set_items(ft, m, items) ==
    IF items = <<>> THEN [map |-> m, exc |-> NoExc]
    ELSE IF ~(isinstance_str(items[1][1]) /\ isinstance_str(items[1][2]))
    THEN [map |-> m, exc |-> [type |-> "TypeError", msg |-> "keys must be 'str'"]]
    ELSE IF ~exists_of(ft, m, items[1][2])
    THEN [map |-> m, exc |-> [type |-> "KeyError", msg |-> items[1][2]]]
    ELSE set_items(ft, Put(m, items[1][1], items[1][2]), Tail(items))

\* setMapping, lines 83-92.
setMapping ==
    /\ \E mapping \in Mappings :
           LET r == set_items(ftab, map, mapping)
           IN  /\ map' = r.map
               /\ IF r.exc = NoExc THEN Return(NoValue)
                  ELSE Raise(r.exc.type, r.exc.msg)
    /\ UNCHANGED <<inp, warns, nevals, hist, ftab>>

\* addfunction( key, to, fclass )( f ), lines 95-104, for the table as to.
addfunction ==
    /\ \E key \in Keys \cup {NotStr}, f \in Callables \cup {NotCallable},
          fclass \in FclassArgs :
           IF exists(key) THEN Return(Plain(f)) /\ ftab' = ftab
           ELSE IF PyCosmoFunction_raises(f, fclass) # NoExc
           THEN /\ Raise(PyCosmoFunction_raises(f, fclass).type,
                         PyCosmoFunction_raises(f, fclass).msg)
                /\ ftab' = ftab
           ELSE IF ~isinstance_str(key)
           THEN Raise("TypeError", "key must be an 'str'") /\ ftab' = ftab
           ELSE /\ Return(Plain(f))
                /\ ftab' = Put(ftab, setitem_key(map, key), PyCosmoFunction(f, fclass))
    /\ UNCHANGED <<inp, warns, nevals, hist, map>>

TableNext == __getitem__ \/ __setitem__ \/ setMapping \/ addfunction

SpecTable == TableInit /\ [][TableNext]_vars

----------------------------------------------------------------------------
(* Properties of solve                                                     *)

\* The caller's bounds pair up elementwise.
SameShape == inp.a.shape = inp.b.shape

PairedShapes ==
    ndim(inp.a) = ndim(inp.b) /\ Broadcastable(inp.a.shape, inp.b.shape)

NElems == Prod(BroadcastShape(inp.a.shape, inp.b.shape))

\* f at the caller's bounds, element i.
InA(i) == BroadcastTo(inp.a, NElems)[i]

InB(i) == BroadcastTo(inp.b, NElems)[i]

InFa(i) == ApplyF(inp.f, inp.args, InA(i))

InFb(i) == ApplyF(inp.f, inp.args, InB(i))

Bracketed(i) == FLt(FMul(InFa(i), InFb(i)), 0)

NonConvergence ==
    [type |-> "SolverError", msg |-> "root does not converge after maximum iterations"]

\* C2: for every tol > 0 and brackets with f(a)*f(b) < 0 in every element,
\* solve returns a root for every element and does not end in a failure,
\* also when a midpoint c or a Ridders point d is an exact zero of f.
C2_ReturnsRoot ==
    (inp.tol > 0 /\ PairedShapes /\ \A i \in 1..NElems : Bracketed(i))
        => pc # "raised"

\* C3: once an element's mask is true, later iterations leave its a, b, fa
\* and fb unchanged, and the value returned for it is the midpoint c of the
\* iteration in which it converged.
C3_FrozenBracket ==
    \A i \in 1..Len(hist.frozen) :
        hist.frozen[i] # <<>> =>
            LET z == hist.frozen[i][1]
            IN  /\ pc = "recurse" =>
                    LET T == stack[1]
                    IN  /\ T.conv[i]
                        /\ T.a[i] = z.a /\ T.b[i] = z.b
                        /\ T.fa[i] = z.fa /\ T.fb[i] = z.fb
                /\ pc = "returned" => out.data[i] = z.c

\* Two elements converged in different iterations, the earlier one with a
\* bracket its midpoint lies strictly inside, and the call has returned.
C3_Witness ==
    /\ pc = "returned"
    /\ \E i, k \in 1..Len(hist.frozen) :
        /\ hist.frozen[i][1].j < hist.frozen[k][1].j
        /\ hist.frozen[i][1].c # hist.frozen[i][1].a
        /\ out.data[i] = hist.frozen[i][1].c

\* C4: whenever an element of bounds that pair up has f(a)*f(b) >= 0, solve
\* raises the bracketing SolverError before the first call of recurse,
\* returns nothing and evaluates f nowhere but at the bounds, whatever the
\* other elements are.
C4_BracketError ==
    (pc # "call" /\ PairedShapes /\ \E i \in 1..NElems : ~Bracketed(i))
        => /\ pc = "raised"
           /\ exc = [type |-> "SolverError", msg |-> "interval does not contain a root"]
           /\ out = NoValue
           /\ hist.j = 0 - 1
           /\ nevals = 2

\* A call with one bracketed element and one element whose endpoint is an
\* exact zero of f has raised.
C4_Witness ==
    /\ pc = "raised" /\ PairedShapes
    /\ \E i, k \in 1..NElems :
        /\ Bracketed(i)
        /\ ~Bracketed(k) /\ InFb(k) = 0

\* C5: whenever a and b do not have identical shape, solve fails with the
\* dimension-mismatch SolverError before f is evaluated.
C5_ShapeMismatchError ==
    (pc # "call" /\ ~SameShape)
        => /\ pc = "raised"
           /\ exc = [type |-> "SolverError", msg |-> "a and b should have same dimension"]
           /\ nevals = 0

\* C7: a call of solve that ends while some element is unconverged ends with
\* the non-convergence SolverError, raised at depth counter 1001, and with
\* no other exception.
C7_NonConvergenceError ==
    (pc = "raised" /\ hist.j >= 0)
        => exc = NonConvergence /\ hist.j = MAXITER + 1

----------------------------------------------------------------------------
(* Properties of integrate2                                                *)

\* Element i's error estimate is a number greater than eps.
Exceeds(i) == ~IsNaN(hist.error[i]) /\ hist.error[i] > inp.eps

\* C9: integrate2 never raises because of non-convergence: whenever the
\* error estimate |Ig - Ik| of some element exceeds eps, the call has
\* returned, with no exception, the Kronrod estimate Ik of every element.
C9_NeverRaisesOnNonConvergence ==
    (\E i \in 1..Len(hist.error) : Exceeds(i)) =>
        /\ pc = "returned"
        /\ exc = NoExc
        /\ Len(out.data) = Prod(out.shape)
        /\ \A i \in 1..Len(out.data) : out.data[i] = hist.Ik[i]

\* C9: a call with two elements returned, the error estimate of one above
\* eps and that of the other not, the Kronrod estimates different.
C9_Witness ==
    /\ pc = "returned"
    /\ \E i, k \in 1..Len(hist.error) :
           Exceeds(i) /\ ~Exceeds(k) /\ out.data[i] # out.data[k]

\* C10: a call of integrate2 that ends has emitted exactly one
\* IntegrationWarning if some element has |Ig - Ik| > eps, strictly, and no
\* warning otherwise; the message is the scalar one when the error is
\* 0-dimensional and the vector one otherwise.
C10_WarningIff ==
    /\ pc = "call" => warns = <<>>
    /\ pc = "raised" => warns = <<>>
    /\ pc = "returned" =>
           warns = IF \E i \in 1..Len(hist.error) : Exceeds(i)
                   THEN <<IntegrationWarning(
                       IF out.shape = <<>>
                       THEN "integral is not converged to specified accuracy"
                       ELSE "atleast some integrals are not converged to specified accuracy")>>
                   ELSE <<>>

\* C10: a call returned silently although the error estimate of an element
\* is as large as a positive eps.
C10_Witness ==
    /\ pc = "returned"
    /\ warns = <<>>
    /\ inp.eps > 0
    /\ \E i \in 1..Len(hist.error) : hist.error[i] = inp.eps

\* C19: when a and b differ in their number of dimensions and one of them
\* is 0-dimensional, it takes the shape of the other and the call is not
\* refused for its dimensions: for another bound of one dimension it returns
\* one value for each element of that bound.  When neither is 0-dimensional
\* the call raises IntegrationError and f has not been evaluated.
C19_ScalarBroadcast ==
    (pc # "call" /\ ndim(inp.a) # ndim(inp.b)) =>
        IF ndim(inp.a) = 0 \/ ndim(inp.b) = 0
        THEN LET other == IF ndim(inp.a) = 0 THEN inp.b ELSE inp.a
             IN  /\ int2_bounds.a.shape = other.shape
                 /\ int2_bounds.b.shape = other.shape
                 /\ exc.type # "IntegrationError"
                 /\ ndim(other) = 1 =>
                        /\ pc = "returned"
                        /\ out.shape = other.shape
                        /\ Len(out.data) = Len(other.data)
                        /\ nevals = 1
        ELSE /\ pc = "raised"
             /\ exc = [type |-> "IntegrationError",
                       msg |-> "a and b should have same dimension"]
             /\ nevals = 0

\* C19: integrate2 returned two values for a 0-dimensional a and a b of two
\* elements.
C19_Witness ==
    /\ pc = "returned"
    /\ ndim(inp.a) = 0 /\ inp.b.shape = <<2>>
    /\ out.shape = <<2>> /\ Len(out.data) = 2

\* C27: for bounds of any number of dimensions whose shapes broadcast, f is
\* handed points of the broadcast shape of a and b followed by one axis of
\* nodes, and the call returns an array of the broadcast shape of a and b.
C27_NodeAxisAnyDimension ==
    (/\ pc # "call"
     /\ ndim(inp.a) = ndim(inp.b) \/ ndim(inp.a) = 0 \/ ndim(inp.b) = 0
     /\ Broadcastable(int2_bounds.a.shape, int2_bounds.b.shape)) =>
        /\ pc = "returned"
        /\ hist.xshape = int2_mshape \o <<legendrerule(inp.n).nnodes>>
        /\ out.shape = int2_mshape

----------------------------------------------------------------------------
(* Properties of integrate1                                                *)

\* C1: whenever a call of recurse returns, the value it returns for an
\* element whose mask was true after that call's convergence test is the
\* current estimate the element had in that call.
C1_FrozenValue ==
    \A i \in 1..Len(hist.ret.value) :
        hist.ret.conv[i] => hist.ret.value[i] = hist.ret.current[i]

\* C6: once a call of recurse has been entered with a depth counter above
\* the ceiling, integrate1 returns nothing: that call returns no value and
\* raises IntegrationError, which ends the whole call of integrate1.
C6_DepthError ==
    hist.deepest > MaxLevel =>
        /\ out = NoValue
        /\ hist.ret.j <= MaxLevel
        /\ pc \in {"recurse", "raised"}
        /\ pc = "recurse" => Top(stack).phase = "enter" /\ Top(stack).j > MaxLevel
        /\ pc = "raised" =>
               /\ exc = [type |-> "IntegrationError",
                         msg  |-> "maximum recursions reached without convergence"]
               /\ stack = <<>>

\* C6: integrate1 raised for the depth after a nested call of recurse had
\* returned a value and the mask of an element had been true.
C6_Witness ==
    /\ pc = "raised"
    /\ hist.deepest > MaxLevel
    /\ hist.nret > 0
    /\ hist.masked
    /\ Len(inp.args.data) > 1

\* C8: a call of integrate1 with rtol < 0 or atol < 0 ends with ValueError
\* before f is evaluated and before recurse is called; a call with
\* rtol >= 0 and atol >= 0, zeros included, does not end with ValueError.
C8_ToleranceError ==
    /\ (pc # "call" /\ (inp.rtol < 0 \/ inp.atol < 0)) =>
           /\ pc = "raised"
           /\ exc = [type |-> "ValueError", msg |-> "tolerance must be positive"]
           /\ nevals = 0
           /\ hist.deepest = 0 - 1
    /\ (pc # "call" /\ inp.rtol >= 0 /\ inp.atol >= 0) =>
           /\ exc.type # "ValueError"
           /\ nevals >= 3
           /\ hist.deepest >= 0

\* C8: a call with rtol = 0 and a negative atol has raised.
C8_Witness ==
    /\ pc = "raised"
    /\ inp.rtol = 0
    /\ inp.atol < 0
    /\ exc.type = "ValueError"

\* The call of integrate1 on element i of the problems alone, as a scalar
\* problem with the caller's tolerances.
Alone1(i) == integrate1_of(<<inp.args.data[i]>>, inp.a, inp.b, inp.rtol, inp.atol)

\* C11: a call of integrate1 on an array of problems returns, for each
\* element, the value that integrate1 returns for that element alone with
\* the same tolerances.
C11_ElementwiseIndependent ==
    pc = "returned" =>
        \A i \in 1..Len(out.data) :
            Alone1(i).ok /\ out.data[i] = Alone1(i).value[1]

\* The integral of the ramp of element i over [a, b], a at or below the
\* knee, in the unit of the estimates: 6 * slope * (b - knee)^2 / 2.
exact(i) ==
    LET r == inp.args.data[i]
    IN  3 * r.slope * (inp.b - r.knee) * (inp.b - r.knee)

\* C14: a value integrate1 returns is no farther from the integral than
\* atol + rtol * |value|, for the rtol and atol the caller passed.
C14_ErrorWithinTolerance ==
    pc = "returned" =>
        \A i \in 1..Len(out.data) :
            within(out.data[i], exact(i), inp.rtol, inp.atol)

\* 1 / ( k + 1 ) for the exponent of element i, rounded to nearest.
pow_exact(i) == (Unit + (inp.args.data[i] + 1) \div 2) \div (inp.args.data[i] + 1)

\* C15: with the default tolerances integrate1 returns, for each exponent
\* k it is given, a value within atol + rtol * |value| of 1 / (k + 1);
\* a call whose exponents are all at most 3 returns from the first call of
\* recurse the exact value, up to the rounding of its last digit.
C15_PowerLaw ==
    (pc # "call" /\ inp.b = Unit /\ inp.rtol = DefaultRtol /\ inp.atol = DefaultAtol) =>
        /\ pc = "returned"
        /\ \A i \in 1..Len(inp.args.data) :
               pow_within(out.data[i], pow_exact(i), inp.rtol, inp.atol)
        /\ (\A i \in 1..Len(inp.args.data) : inp.args.data[i] <= 3) =>
               /\ hist.ncalls = 1
               /\ \A i \in 1..Len(inp.args.data) :
                      Abs(out.data[i] - pow_exact(i)) <= 1

\* C15: with the default tolerances integrate1 returned for x**8 after
\* nested calls of recurse.
C15_Witness ==
    /\ pc = "returned" /\ inp.b = Unit
    /\ inp.rtol = DefaultRtol /\ inp.atol = DefaultAtol
    /\ inp.args.data = <<8>> /\ hist.deepest > 0

\* The larger of the tolerance t halved j times and the floor.
halved_floored(t, j) ==
    IF t \div (2 ^ j) > TolFloor THEN t \div (2 ^ j) ELSE TolFloor

\* C20 as stated: the rtol and atol that a nested call of recurse uses in
\* its convergence test are half of those its caller uses, and the call
\* with counter j uses rtol / 2^j and atol / 2^j.
C20_ExactHalving ==
    /\ \A i \in 1..(Len(stack) - 1) :
           ~too_deep(stack[i + 1].j) =>
               /\ 2 * floored(stack[i + 1].rtol) = floored(stack[i].rtol)
               /\ 2 * floored(stack[i + 1].atol) = floored(stack[i].atol)
    /\ \A i \in 1..Len(stack) :
           ~too_deep(stack[i].j) =>
               /\ floored(stack[i].rtol) * (2 ^ stack[i].j) = inp.rtol
               /\ floored(stack[i].atol) * (2 ^ stack[i].j) = inp.atol

\* C20, amended: the rtol and atol handed to a nested call of recurse, left
\* or right, are half of those its caller uses in its convergence test;
\* each call uses what it was handed floored at 1e-08, so the call with
\* counter j uses max(rtol / 2^j, 1e-08) and max(atol / 2^j, 1e-08).
C20_HalvingWithFloor ==
    /\ \A i \in 1..(Len(stack) - 1) :
           /\ stack[i + 1].j = stack[i].j + 1
           /\ 2 * stack[i + 1].rtol = floored(stack[i].rtol)
           /\ 2 * stack[i + 1].atol = floored(stack[i].atol)
    /\ \A i \in 1..Len(stack) :
           /\ floored(stack[i].rtol) = halved_floored(inp.rtol, stack[i].j)
           /\ floored(stack[i].atol) = halved_floored(inp.atol, stack[i].j)

\* C20: a nested call has been handed an atol above the floor and an rtol
\* below it, and a call nested in it an atol at the floor.
C20_Witness ==
    /\ pc = "recurse" /\ Len(stack) = 3
    /\ stack[2].atol > TolFloor /\ stack[2].rtol < TolFloor
    /\ stack[3].atol = TolFloor /\ ~too_deep(stack[3].j)

----------------------------------------------------------------------------
(* Properties of solve, continued                                          *)

\* The call of solve on the bracket of element i alone, with the caller's
\* f, args and tol.
Alone(i) == solve_of(<<InA(i)>>, <<InB(i)>>)

\* C12: when solve on each bracket alone returns a value, solve on the
\* brackets together returns, for each element, that same value.
C12_ElementwiseIndependent ==
    (pc \in {"returned", "raised"} /\ PairedShapes
        /\ \A i \in 1..NElems : Alone(i).ok) =>
            /\ pc = "returned"
            /\ Len(out.data) = NElems
            /\ \A i \in 1..NElems : out.data[i] = Alone(i).value[1]

\* C12: two brackets returned together, one converged in an earlier pass
\* than the other, with different roots.
C12_Witness ==
    /\ pc = "returned"
    /\ Len(out.data) = 2
    /\ Alone(1).ok /\ Alone(2).ok
    /\ out.data[1] # out.data[2]
    /\ hist.frozen[1][1].j # hist.frozen[2][1].j

\* f( x, *args ) for the caller's f and args.
F(x) == ApplyF(inp.f, inp.args, x)

\* The continuous f has a zero that lies in the original bracket of element
\* i and differs from c by less than tol: f is zero at a whole point nearer
\* to c than tol, or changes sign between two neighbouring whole points
\* that are no farther from c than tol.
NearZero(i, c) ==
    LET lo == IF InA(i) < InB(i) THEN InA(i) ELSE InB(i)
        hi == IF InA(i) < InB(i) THEN InB(i) ELSE InA(i)
    IN  \E p \in lo..hi :
            \/ Abs(p - c) < inp.tol /\ F(p) = 0
            \/ /\ p + 1 <= hi
               /\ c - inp.tol <= p /\ p + 1 <= c + inp.tol
               /\ F(p) * F(p + 1) < 0

\* C13: every element of the value solve returns differs by less than tol
\* from a zero of f inside that element's original bracket.
C13_RootWithinTol ==
    pc = "returned" => \A i \in 1..Len(out.data) : NearZero(i, out.data[i])

\* C13: solve returned, after at least two bracket updates, a point at
\* which f is not zero, for an element of a pair of brackets.
C13_Witness ==
    /\ pc = "returned"
    /\ Len(out.data) = 2
    /\ hist.j >= 2
    /\ \E i \in 1..2 : hist.frozen[i][1].j >= 2 /\ F(out.data[i]) # 0

\* The type of the error each routine raises when its iteration does not
\* converge, lines 107 and 265.
nonconvergence_type ==
    IF inp.routine = "solve" THEN NonConvergence.type ELSE "IntegrationError"

\* The messages of the errors each routine raises on validating its
\* arguments, lines 132, 329 and 335.
validation_messages ==
    IF inp.routine = "solve"
    THEN {"a and b should have same dimension", "interval does not contain a root"}
    ELSE {"tolerance must be positive"}

\* C16: a validation error of integrate1 or solve is of another type than
\* the non-convergence error of the same routine.
C16_DistinctErrorTypes ==
    (pc = "raised" /\ exc.msg \in validation_messages) =>
        exc.type # nonconvergence_type

\* C17: a call of solve with a negative tol ends in an error without a
\* call of recurse.
C17_NegativeTolRejected ==
    (inp.tol < 0 /\ pc # "call") => (pc = "raised" /\ hist.j < 0 /\ stack = <<>>)

-----------------------------------------------------------------------------
(* Properties of all routines                                              *)

\* What the calls of warnings.warn, lines 211-214, have entered in the
\* module's __warningregistry__ : one key for each text and category (both
\* calls are on lines of their own).  The registry outlives the call, and
\* under the default filter a warning whose key it holds is not shown again.
warningregistry ==
    {[text |-> warns[i].msg, category |-> warns[i].category] : i \in 1..Len(warns)}

\* C18: no step of a call changes the caller's a and b, and a call that has
\* returned or raised leaves no state behind: no frame of its own, and no
\* entry in a registry.
C18_NoSideEffects ==
    /\ [][inp' = inp]_vars
    /\ [](pc \in {"returned", "raised"} =>
              stack = <<>> /\ depth = 1 /\ warningregistry = {})

-----------------------------------------------------------------------------
(* Properties of integrate1, continued                                     *)

\* C21: in every call of recurse that reaches its convergence test, the
\* rtol and the atol the test uses are at least 1e-08.
C21_ToleranceFloor ==
    (pc = "recurse" /\ ~tolerance_invalid(inp.rtol, inp.atol)) =>
        \A i \in 1..Len(stack) :
            ~too_deep(stack[i].j) =>
                /\ int1_body(stack[i]).rtol >= TolFloor
                /\ int1_body(stack[i]).atol >= TolFloor

\* C21: a nested call that goes on to its convergence test has been handed
\* an rtol below 1e-08 by a caller who passed atol = 0.
C21_Witness ==
    /\ pc = "recurse" /\ Len(stack) >= 2
    /\ inp.atol = 0
    /\ Top(stack).rtol < TolFloor /\ Top(stack).atol < TolFloor
    /\ ~too_deep(Top(stack).j)

-----------------------------------------------------------------------------
(* Properties of the iterations of solve                                   *)

\* The bracket the priority rule gives element i of the frame T: the one it
\* has when masked is true, else [c, d] when fc*fd < 0, else [a, d] when
\* fa*fd < 0, else [d, b].
priority_bracket(T, i, masked) ==
    LET c  == ridders_c(T.a[i], T.b[i])
        fc == F(c)
        d  == ridders_d(T.a[i], c, T.fa[i], T.fb[i], fc)
        fd == F(d)
    IN  IF masked THEN <<T.a[i], T.b[i]>>
        ELSE IF FLt(FMul(fc, fd), 0) THEN <<c, d>>
        ELSE IF FLt(FMul(T.fa[i], fd), 0) THEN <<T.a[i], d>>
        ELSE <<d, T.b[i]>>

\* C22: every iteration of solve gives every element the bracket of exactly
\* one branch, taken in the order mask, fc*fd < 0, fa*fd < 0, otherwise.
C22_BranchPriority ==
    [][(pc = "recurse" /\ pc' = "recurse" /\ stack'[1].j = stack[1].j + 1) =>
           \A i \in 1..Len(stack[1].a) :
               <<stack'[1].a[i], stack'[1].b[i]>> =
                   priority_bracket(stack[1], i, stack'[1].conv[i])]_vars

\* C22: after two iterations one element of a pair is masked and the other
\* is not.
C22_Witness ==
    /\ pc = "recurse" /\ Len(stack[1].a) = 2
    /\ stack[1].j >= 2
    /\ stack[1].conv[1] /\ ~stack[1].conv[2]

\* x lies between the endpoints of the bracket of element i of the frame T.
inside(T, i, x) ==
    \/ FLe(T.a[i], x) /\ FLe(x, T.b[i])
    \/ FLe(T.b[i], x) /\ FLe(x, T.a[i])

\* C23: after every iteration of solve the stored values of every element
\* have strictly opposite signs, and its bracket lies within the bracket it
\* had before the iteration.
C23_StillBracket ==
    [][(pc = "recurse" /\ pc' = "recurse" /\ stack'[1].j = stack[1].j + 1) =>
           \A i \in 1..Len(stack[1].a) :
               /\ FLt(FMul(stack'[1].fa[i], stack'[1].fb[i]), 0)
               /\ inside(stack[1], i, stack'[1].a[i])
               /\ inside(stack[1], i, stack'[1].b[i])]_vars

\* np.abs( h ) for element i of the frame T.
width(T, i) == FAbs(ridders_h(T.a[i], T.b[i]))

\* C24: every iteration of solve leaves every element whose mask is false
\* a bracket of at most half the width it had, up to the rounding of the
\* midpoint to the unit.
C24_HalvesWidth ==
    [][(pc = "recurse" /\ pc' = "recurse" /\ stack'[1].j = stack[1].j + 1) =>
           \A i \in 1..Len(stack[1].a) :
               ~stack'[1].conv[i] =>
                   FLe(FMul(2, width(stack'[1], i)), FAdd(width(stack[1], i), 1))]_vars

\* C25: solve makes at most 1000 updates of the brackets; a call of recurse
\* entered after 1000 updates with some element unconverged fails, without a
\* further update and without a further evaluation of f.
C25_AtMostMaxiter ==
    /\ [](hist.j <= MAXITER)
    /\ [][(pc = "recurse" /\ stack[1].j >= MAXITER
               /\ ~np_min(recurse_conv(stack[1]))) =>
              (pc' = "raised" /\ nevals' = nevals /\ hist'.j = hist.j)]_vars

-----------------------------------------------------------------------------
(* Properties of the recursion of integrate1                               *)

\* The counters of the calls of recurse on the stack: 0 for the first call,
\* and one more for each nested call.
counted(s) == \A i \in 1..Len(s) : s[i].j = i - 1

\* A call of recurse entered with a counter above the ceiling raises, without
\* evaluating f and without a nested call.
ceiling_stops ==
    (pc = "recurse" /\ Top(stack).phase = "enter" /\ too_deep(Top(stack).j)) =>
        (pc' = "raised" /\ exc'.type = "IntegrationError" /\ nevals' = nevals)

-----------------------------------------------------------------------------
(* Properties of the stored values of solve                                *)

\* The stored values of the frame T are f at its endpoints, for every element.
paired(T) ==
    \A i \in 1..Len(T.a) : T.fa[i] = F(T.a[i]) /\ T.fb[i] = F(T.b[i])

\* C28: in every call of recurse fa and fb are the values of f at a and b,
\* for every element, and an iteration leaves the endpoints and the stored
\* values of an element whose mask is true as they were.
C28_StoredValuesPaired ==
    /\ [](pc = "recurse" => paired(stack[1]))
    /\ [][(pc = "recurse" /\ pc' = "recurse" /\ stack'[1].j = stack[1].j + 1) =>
              \A i \in 1..Len(stack[1].a) :
                  stack'[1].conv[i] =>
                      /\ stack'[1].a[i] = stack[1].a[i]
                      /\ stack'[1].fa[i] = stack[1].fa[i]
                      /\ stack'[1].b[i] = stack[1].b[i]
                      /\ stack'[1].fb[i] = stack[1].fb[i]]_vars

\* C28: a call of recurse has been entered with one element frozen and
\* another whose two endpoints have both been replaced.
C28_Witness ==
    /\ pc = "recurse" /\ Len(stack[1].a) = 2
    /\ stack[1].conv[1] /\ ~stack[1].conv[2]
    /\ stack[1].a[2] # InA(2) /\ stack[1].b[2] # InB(2)

-----------------------------------------------------------------------------
(* Properties of the recursion tree of integrate1                          *)

\* The calls of recurse that returned without nested calls lie end to end,
\* the first of them starting at a.
end_to_end(L) ==
    /\ \A k \in 1..Len(L) : L[k].a < L[k].b
    /\ L # <<>> => L[1].a = inp.a
    /\ \A k \in 1..(Len(L) - 1) : L[k].b = L[k + 1].a

RECURSIVE widths(_)
\* The sum of the widths of the intervals of L.
widths(L) == IF L = <<>> THEN 0 ELSE (Head(L).b - Head(L).a) + widths(Tail(L))

RECURSIVE leaf_sum(_, _)
\* The sum of left + right of element i over the calls of L.
leaf_sum(L, i) == IF L = <<>> THEN 0 ELSE Head(L).sum[i] + leaf_sum(Tail(L), i)

\* The arguments E of a call of recurse carry f at the ends and at the
\* midpoint of its own interval.
own_values(E) ==
    /\ E.m = E.a + (E.b - E.a) \div 2
    /\ E.fa = int1_f(E.a) /\ E.fm = int1_f(E.m) /\ E.fb = int1_f(E.b)

\* C29: the calls of recurse that return without nested calls lie end to
\* end from a and, once integrate1 has returned, up to b, their widths
\* summing to b - a; every call of recurse has f at the ends and the
\* midpoint of its own interval as fa, fb and fm; and for an element whose
\* mask was false on entry to each of those calls the value returned is the
\* sum of their left + right.
C29_LeavesCover ==
    /\ end_to_end(hist.leaves)
    /\ pc = "recurse" => \A k \in 1..Len(stack) : own_values(stack[k])
    /\ pc = "returned" =>
           /\ hist.leaves # <<>>
           /\ hist.leaves[Len(hist.leaves)].b = inp.b
           /\ widths(hist.leaves) = inp.b - inp.a
           /\ \A i \in 1..Len(out.data) :
                  (\A k \in 1..Len(hist.leaves) : ~hist.leaves[k].conv[i]) =>
                      out.data[i] = leaf_sum(hist.leaves, i)

\* C29: integrate1 returned the sum of three or more calls of recurse of
\* different widths, an element's mask being false on entry to each.
C29_Witness ==
    /\ pc = "returned" /\ Len(hist.leaves) >= 3
    /\ \E k \in 2..Len(hist.leaves) :
           hist.leaves[k].b - hist.leaves[k].a # hist.leaves[1].b - hist.leaves[1].a
    /\ \E i \in 1..Len(out.data) :
           \A k \in 1..Len(hist.leaves) : ~hist.leaves[k].conv[i]

-----------------------------------------------------------------------------
(* Properties of FunctionTable                                             *)

\* C30: after any calls of __setitem__, setMapping and addfunction, the
\* lookup of every key for which exists is true returns a stored
\* PyCosmoFunction.
C30_ExistingKeysResolve ==
    \A key \in Keys :
        exists(key) =>
            /\ getitem_of(ftab, map, key).ok
            /\ isinstance_PyCosmoFunction(getitem_of(ftab, map, key).value)

=============================================================================
